---- MODULE Spec2Model ----
\* KssBuilderBaseTwig (builder/base/twig/kss_builder_base_twig.js): build() and
\* buildPage() as a state machine.  One action per callback of the promise
\* chains; JavaScript runs each callback to completion, so each is atomic.
\*
\* Strings are sequences of one-character strings (or of short atoms), so that
\* basename, the file-path regular expression and the reference split are
\* computed and not assumed.
EXTENDS Integers, Sequences, FiniteSets, TLC

\* ---------------------------------------------------------------- bounds
NumRoots == 2
MaxBuilds == 2

Roots == 1..NumRoots

\* ---------------------------------------------------------------- strings
DotTwig == <<".", "t", "w", "i", "g">>
KssExamplePrefix == <<"k", "s", "s", "-", "e", "x", "a", "m", "p", "l", "e", "-">>
NotFoundMarker == <<" ", "N", "O", "T", " ", "F", "O", "U", "N", "D", "!">>
EmptyTemplateData == <<"{#", " Cannot be an empty string. ", "#}">>
placeholder == <<"[modifier class]">>

EndsWith(s, suf) ==
  /\ Len(s) >= Len(suf)
  /\ SubSeq(s, Len(s) - Len(suf) + 1, Len(s)) = suf

StartsWith(s, pre) ==
  /\ Len(s) >= Len(pre)
  /\ SubSeq(s, 1, Len(pre)) = pre

Contains(s, c) == \E i \in DOMAIN s : s[i] = c

\* path.basename(p): what follows the last "/".
Basename(p) ==
  LET slashes == {i \in DOMAIN p : p[i] = "/"}
  IN IF slashes = {} THEN p
     ELSE SubSeq(p, (CHOOSE i \in slashes : \A j \in slashes : j <= i) + 1, Len(p))

\* Variant: a line break before the file name is accepted.
IsFilePathAnyLine(markup) ==
  /\ Len(markup) > Len(DotTwig)
  /\ EndsWith(markup, DotTwig)

\* template.markup.match(/^[^\n]+\.twig$/)
IsFilePath(markup) ==
  /\ Len(markup) > Len(DotTwig)
  /\ EndsWith(markup, DotTwig)
  /\ ~Contains(markup, "\n")

\* section.reference().split(/(?:\.|\ \-\ )/)[0]
IsDelimiterAt(ref, i) ==
  \/ ref[i] = "."
  \/ /\ i + 2 <= Len(ref)
     /\ ref[i] = " " /\ ref[i + 1] = "-" /\ ref[i + 2] = " "

\* Variant: the reference is split on '.' only.
CurrentRootDotOnly(ref) ==
  LET ds == {i \in DOMAIN ref : ref[i] = "."}
  IN IF ds = {} THEN ref
     ELSE SubSeq(ref, 1, (CHOOSE i \in ds : \A j \in ds : i <= j) - 1)

CurrentRoot(ref) ==
  LET ds == {i \in DOMAIN ref : IsDelimiterAt(ref, i)}
  IN IF ds = {} THEN ref
     ELSE SubSeq(ref, 1, (CHOOSE i \in ds : \A j \in ds : i <= j) - 1)

\* A template source the engine cannot parse: an unclosed block tag.
Malformed(text) == Contains(text, "{%")

\* ---------------------------------------------------------------- values
NoFile == [root |-> 0, path |-> <<>>]

\* A compiled template (engine handle); NoTemplate stands for undefined/null.
NoTemplate == [kind |-> "none", id |-> <<>>, text |-> <<>>, file |-> NoFile, build |-> 0]
DataTemplate(id, text, b) ==
  [kind |-> "data", id |-> id, text |-> text, file |-> NoFile, build |-> b]
PathTemplate(id, file, b) ==
  [kind |-> "path", id |-> id, text |-> <<>>, file |-> file, build |-> b]

\* A sample context object: the modifier_class key (absent or a string) and
\* whether its values have been wrapped by safeMarkup.
EmptyContext == [hasMc |-> FALSE, mc |-> <<>>, safe |-> FALSE]
SampleContext == [hasMc |-> TRUE, mc |-> <<"base">>, safe |-> FALSE]

\* Object identities on the JavaScript heap.
LiteralObj(i, field) == <<"literal", i, <<field>>>>
ModuleObj(file) == <<"module", file.root, file.path>>
ScratchObj == <<"scratch", 0, <<>>>>

\* A rendering: the template that produced it and the data it was given.
NoOutput == [tpl |-> NoTemplate, data |-> EmptyContext]

\* ---------------------------------------------------------------- inputs
BTwig == <<"b", ".", "t", "w", "i", "g">>
DirBTwig == <<"d", "/">> \o BTwig
ExampleBTwig == KssExamplePrefix \o BTwig
InlineMarkup == <<"<", "b", ">">>
BadInlineMarkup == <<"{%", "i", "f">>
ThrowingMarkup == <<"{{x()}}">>
\* Inline text of two lines whose last line is a file name, and a markup that
\* is the extension and nothing else.
TwoLineMarkup == InlineMarkup \o <<"\n">> \o BTwig
BareExtensionMarkup == DotTwig

FileEntry(path, json, bad) == [path |-> path, json |-> json, bad |-> bad]

\* What one source root may hold, as glob lists it (sorted).
RootContents ==
  { <<>>,
    <<FileEntry(BTwig, "obj", FALSE), FileEntry(DirBTwig, "bad", FALSE)>>,
    <<FileEntry(ExampleBTwig, "obj", FALSE)>>,
    <<FileEntry(BTwig, "none", FALSE), FileEntry(ExampleBTwig, "none", FALSE)>> }

Section(ref, markup, modifiers) ==
  [reference |-> ref, markup |-> markup, modifiers |-> modifiers]

Ref1 == <<"1">>
Ref11 == <<"1", ".", "1">>
Ref2 == <<"2">>
RefA == <<"a">>
RefAB == <<"a", " ", "-", " ", "b">>
RefAb == <<"a", "b">>

OneFileGuide == <<Section(Ref1, BTwig, <<"m">>)>>
InlineGuide == <<Section(Ref1, <<>>, <<>>), Section(Ref11, InlineMarkup, <<"m">>)>>
SharedFileGuide == <<Section(Ref1, BTwig, <<>>), Section(Ref2, BTwig, <<>>)>>
SameNameGuide == <<Section(Ref1, BTwig, <<>>), Section(Ref2, DirBTwig, <<>>)>>
BadInlineGuide == <<Section(Ref1, BadInlineMarkup, <<>>)>>
ThrowingGuide == <<Section(Ref1, ThrowingMarkup, <<>>)>>
TwoLineGuide == <<Section(Ref1, TwoLineMarkup, <<>>)>>
BareExtensionGuide == <<Section(Ref1, BareExtensionMarkup, <<>>)>>
\* Sections without markup, for the grouping of sections into pages.
NumericGuide ==
  <<Section(Ref1, <<>>, <<>>), Section(Ref11, <<>>, <<>>), Section(Ref2, <<>>, <<>>)>>
WordGuide ==
  <<Section(RefA, <<>>, <<>>), Section(RefAB, <<>>, <<>>), Section(RefAb, <<>>, <<>>)>>
\* Two sections with markup on one page, one of them with two modifiers.
ModifierGuide ==
  <<Section(Ref1, InlineMarkup, <<"m", "n">>), Section(Ref11, BTwig, <<"m">>)>>

\* The builder directory: which page templates it holds, and which of those
\* the engine cannot compile.
AllPresent == [index |-> TRUE, section |-> TRUE, item |-> TRUE, malformed |-> {}]
IndexOnly == [index |-> TRUE, section |-> FALSE, item |-> FALSE, malformed |-> {}]
NoIndex == [index |-> FALSE, section |-> FALSE, item |-> FALSE, malformed |-> {}]
NoItem == [index |-> TRUE, section |-> TRUE, item |-> FALSE, malformed |-> {}]
NoSection == [index |-> TRUE, section |-> FALSE, item |-> TRUE, malformed |-> {}]
MalformedSection ==
  [index |-> TRUE, section |-> TRUE, item |-> TRUE, malformed |-> {"section"}]
MalformedIndex ==
  [index |-> TRUE, section |-> TRUE, item |-> TRUE, malformed |-> {"index"}]

OnlyFirstRoot(listing) == [r \in Roots |-> IF r = 1 THEN listing ELSE <<>>]

\* ---------------------------------------------------------------- state
VARIABLES
  styleGuide,     \* the KssStyleGuide given to build(): its sections, in order
  files,          \* options.source: per root, the template files glob lists
  builderFiles,   \* the builder's index.twig, section.twig, item.twig: there, malformed
  registry,       \* Twig.Templates.registry: identity -> compiled template
  registered,     \* per identity, the number of registrations since the last reset
  resets,         \* registryReset() calls so far, and what the last one left
  templates,      \* this.templates: index, section, item
  userTemplates,  \* this.userTemplates: section reference -> TemplateRecord
  heap,           \* the sample context objects
  buildNo,        \* the number of build() calls so far
  buildState,     \* the promise build() returned: idle, tasks, pages, resolved, rejected
  loadTask,       \* the page-template load chain: steps left, rejected, loads caught
  tmpl,           \* per section, its template object and resolution task
  sectionRoots,   \* build()'s sectionRoots
  pages,          \* the buildPage() calls of the current build
  savedContexts   \* per TemplateRecord, the value of its contexts when it was saved

vars == <<styleGuide, files, builderFiles, registry, registered, resets,
          templates, userTemplates, heap, buildNo, buildState, loadTask, tmpl,
          sectionRoots, pages, savedContexts>>

Empty == <<>>

Has(f, k) == k \in DOMAIN f

\* ---------------------------------------------------------------- engine
\* Variant: the reset leaves the registry as it was.
RegistryKept(reg) == reg

\* Twig.registryReset(): Twig.Templates.registry = {}
RegistryReset(reg) == Empty

\* The engine saves a compiled template under its id.
Register(reg, template) ==
  [k \in DOMAIN reg \cup {template.id} |->
     IF k = template.id THEN template ELSE reg[k]]

Count(log, id) ==
  [k \in DOMAIN log \cup {id} |->
     IF k = id THEN (IF Has(log, id) THEN log[id] + 1 ELSE 1) ELSE log[k]]

\* twigAsync({id, data}): twig() compiles at once; a parse error rejects.
TwigAsyncData(eng, id, data, b) ==
  IF Malformed(data)
  THEN [ok |-> FALSE, registry |-> eng.registry, registered |-> eng.registered]
  ELSE [ok |-> TRUE,
        registry |-> Register(eng.registry, DataTemplate(id, data, b)),
        registered |-> Count(eng.registered, id)]

\* twigAsync({ref}): Twig.Templates.load(ref), null when not registered.
TwigAsyncRef(reg, ref) == IF Has(reg, ref) THEN reg[ref] ELSE NoTemplate

\* A template that compiles and throws when rendered: it calls a function
\* that is not defined.
RenderThrows(template) == Contains(template.text, "{{x()}}")

\* template.render(data)
Render(template, data) == [tpl |-> template, data |-> data]

\* ---------------------------------------------------------------- build()
GlobIndexes == 1..(2 * NumRoots)
NoGlob == [done |-> FALSE, files |-> <<>>]

\* The template object build() makes for a section (lines 368-377), with the
\* file-path branch's assignments (lines 390-393), and the state of its task.
NewTemplate(i, section) ==
  LET isFile == IsFilePath(section.markup)
      name == IF isFile THEN Basename(section.markup) ELSE section.reference
  IN [pc |-> IF section.markup = <<>> THEN "none"
             ELSE IF isFile THEN "glob"
             ELSE IF Malformed(section.markup) THEN "failed"
             ELSE "inline",
      name |-> name,
      reference |-> section.reference,
      file |-> IF isFile THEN [root |-> 0, path |-> section.markup] ELSE NoFile,
      markup |-> section.markup,
      context |-> LiteralObj(i, "context"),
      exampleName |-> IF isFile THEN KssExamplePrefix \o name ELSE <<>>,
      exampleFile |-> NoFile,
      exampleContext |-> LiteralObj(i, "exampleContext"),
      globs |-> [g \in GlobIndexes |-> NoGlob],
      first |-> 0,
      pending |-> {}]
\* (first: whether the search that completed first was one of the first root (1)
\* or of a later root (2); kept until the record is saved.)

\* compileInline(template): twigAsync({id: template.name, data: template.markup})
CompileInline(eng, template, b) ==
  TwigAsyncData(eng, template.name, template.markup, b)

\* The inline branch of sections.forEach: each inline section is compiled
\* during build() itself, in section order.
RECURSIVE CompileInlineSections(_, _, _, _)
CompileInlineSections(sections, k, eng, b) ==
  IF k > Len(sections) THEN eng
  ELSE LET t == NewTemplate(k, sections[k])
           r == CompileInline(eng, t, b)
       IN CompileInlineSections(sections, k + 1,
            IF t.pc \in {"inline", "failed"}
            THEN [registry |-> r.registry, registered |-> r.registered]
            ELSE eng, b)

\* Variant: the root of every section is appended, seen before or not.
RECURSIVE SectionRootsEvery(_, _, _)
SectionRootsEvery(sections, k, acc) ==
  IF k > Len(sections) THEN acc
  ELSE SectionRootsEvery(sections, k + 1, Append(acc, CurrentRoot(sections[k].reference)))

\* sectionRoots: the distinct root references, in order of first appearance.
RECURSIVE SectionRoots(_, _, _)
SectionRoots(sections, k, acc) ==
  IF k > Len(sections) THEN acc
  ELSE LET currentRoot == CurrentRoot(sections[k].reference)
       IN SectionRoots(sections, k + 1,
            IF \E j \in DOMAIN acc : acc[j] = currentRoot THEN acc
            ELSE Append(acc, currentRoot))

\* Variant: every build loads the page templates again.
LoadStepsAlways(tpls) == <<"index", "section", "item">>

\* The steps of the loadTask chain build() sets up: one per page template
\* that is still undefined when build() is called.
LoadSteps(tpls) ==
  (IF tpls.index = NoTemplate THEN <<"index">> ELSE <<>>)
  \o (IF tpls.section = NoTemplate THEN <<"section">> ELSE <<>>)
  \o (IF tpls.item = NoTemplate THEN <<"item">> ELSE <<>>)

TaskSettled(t) == t.pc \in {"none", "saved", "failed"} /\ t.pending = {}
PageSettled(p) == p.pc \in {"written", "failed"}

\* No callback of an earlier build() is outstanding.
Quiescent ==
  /\ buildState \in {"idle", "resolved", "rejected"}
  /\ loadTask.steps = <<>> \/ loadTask.failed
  /\ \A i \in DOMAIN tmpl : TaskSettled(tmpl[i])
  /\ \A p \in DOMAIN pages : PageSettled(pages[p])

IsModuleObj(o) == o[1] = "module"

Build ==
  /\ buildNo < MaxBuilds
  /\ Quiescent
  /\ LET b == buildNo + 1
         sections == styleGuide
         reset == RegistryReset(registry)
         eng == CompileInlineSections(sections, 1,
                  [registry |-> reset, registered |-> Empty], b)
         ts == [i \in DOMAIN sections |-> NewTemplate(i, sections[i])]
         literals == {i \in DOMAIN sections : ts[i].pc # "none"}
     IN /\ buildNo' = b
        /\ userTemplates' = Empty
        /\ resets' = [count |-> resets.count + 1, left |-> reset]
        /\ registry' = eng.registry
        /\ registered' = eng.registered
        /\ loadTask' = [steps |-> LoadSteps(templates), failed |-> FALSE, caught |-> {}]
        /\ tmpl' = ts
        /\ sectionRoots' = SectionRoots(sections, 1, <<>>)
        /\ heap' = [o \in {x \in DOMAIN heap : IsModuleObj(x)}
                           \cup {LiteralObj(i, "context") : i \in literals}
                           \cup {LiteralObj(i, "exampleContext") : i \in literals} |->
                      IF IsModuleObj(o) THEN heap[o] ELSE EmptyContext]
        /\ pages' = <<>>
        /\ savedContexts' = Empty
        /\ buildState' = IF \E i \in DOMAIN ts : ts[i].pc = "failed"
                         THEN "rejected" ELSE "tasks"
  /\ UNCHANGED <<styleGuide, files, builderFiles, templates>>

\* Variant: a rejection inside a join is lost.
RejectionLost(state) == state

\* Promise.all rejects the promise it returned on the first rejection; the
\* other tasks keep running.
Rejected(state) == IF state \in {"tasks", "pages"} THEN "rejected" ELSE state

\* ---------------------------------------------------------------- loadTask
IndexId == <<"@builderTwig/index.twig">>
SectionId == <<"@builderTwig/section.twig">>
ItemId == <<"@builderTwig/item.twig">>
BuilderFile(name) == [root |-> 0, path |-> <<name>>]

\* twigAsync({id, path}) of a page template is fulfilled: the file is there
\* and the engine compiles it.
BuilderLoads(name) == builderFiles[name] /\ name \notin builderFiles.malformed

NextLoad(step) ==
  /\ ~loadTask.failed
  /\ loadTask.steps # <<>>
  /\ Head(loadTask.steps) = step

LoadIndex ==
  /\ NextLoad("index")
  /\ IF BuilderLoads("index")
     THEN LET template == PathTemplate(IndexId, BuilderFile("index.twig"), buildNo)
          IN /\ registry' = Register(registry, template)
             /\ registered' = Count(registered, IndexId)
             /\ templates' = [templates EXCEPT !.index = template]
             /\ loadTask' = [loadTask EXCEPT !.steps = Tail(@)]
             /\ UNCHANGED buildState
     ELSE /\ loadTask' = [loadTask EXCEPT !.failed = TRUE]
          /\ buildState' = Rejected(buildState)
          /\ UNCHANGED <<registry, registered, templates>>
  /\ UNCHANGED <<styleGuide, files, builderFiles, resets, userTemplates, heap,
                 buildNo, tmpl, sectionRoots, pages, savedContexts>>

\* Variant: a missing item.twig borrows index.twig directly.
ItemFallbackIndex(tpls) == tpls.index

\* this.templates.section ? this.templates.section : this.templates.index
ItemFallback(tpls) == IF tpls.section # NoTemplate THEN tpls.section ELSE tpls.index

LoadSection ==
  /\ NextLoad("section")
  /\ IF BuilderLoads("section")
     THEN LET template == PathTemplate(SectionId, BuilderFile("section.twig"), buildNo)
          IN /\ registry' = Register(registry, template)
             /\ registered' = Count(registered, SectionId)
             /\ templates' = [templates EXCEPT !.section = template]
             /\ loadTask' = [loadTask EXCEPT !.steps = Tail(@)]
     ELSE /\ templates' = [templates EXCEPT !.section = templates.index]
          /\ loadTask' = [loadTask EXCEPT !.steps = Tail(@),
                                          !.caught = @ \cup {"section"}]
          /\ UNCHANGED <<registry, registered>>
  /\ UNCHANGED <<styleGuide, files, builderFiles, resets, userTemplates, heap,
                 buildNo, buildState, tmpl, sectionRoots, pages, savedContexts>>

LoadItem ==
  /\ NextLoad("item")
  /\ IF BuilderLoads("item")
     THEN LET template == PathTemplate(ItemId, BuilderFile("item.twig"), buildNo)
          IN /\ registry' = Register(registry, template)
             /\ registered' = Count(registered, ItemId)
             /\ templates' = [templates EXCEPT !.item = template]
             /\ loadTask' = [loadTask EXCEPT !.steps = Tail(@)]
     ELSE /\ templates' = [templates EXCEPT !.item = ItemFallback(templates)]
          /\ loadTask' = [loadTask EXCEPT !.steps = Tail(@),
                                          !.caught = @ \cup {"item"}]
          /\ UNCHANGED <<registry, registered>>
  /\ UNCHANGED <<styleGuide, files, builderFiles, resets, userTemplates, heap,
                 buildNo, buildState, tmpl, sectionRoots, pages, savedContexts>>

\* ---------------------------------------------------------------- locator
\* glob(source + '/**/' + pattern): the files of the root whose path is the
\* pattern or ends in '/' + pattern, in glob's (sorted) order.
RECURSIVE GlobFrom(_, _, _, _)
GlobFrom(root, listing, k, pattern) ==
  IF k > Len(listing) THEN <<>>
  ELSE LET path == listing[k].path
           hit == path = pattern \/ EndsWith(path, <<"/">> \o pattern)
       IN (IF hit THEN <<[root |-> root, path |-> path]>> ELSE <<>>)
          \o GlobFrom(root, listing, k + 1, pattern)

Glob(root, pattern) == GlobFrom(root, files[root], 1, pattern)

\* findTemplates: for each source, the glob of the markup file, then the glob
\* of the example name.
GlobRoot(g) == (g + 1) \div 2
GlobPattern(t, g) == IF g % 2 = 1 THEN t.markup ELSE KssExamplePrefix \o t.name

GlobDone(i, g) ==
  /\ tmpl[i].pc = "glob"
  /\ ~tmpl[i].globs[g].done
  /\ tmpl' = [tmpl EXCEPT ![i].globs[g] =
                [done |-> TRUE, files |-> Glob(GlobRoot(g), GlobPattern(tmpl[i], g))],
                          ![i].first = IF @ # 0 THEN @ ELSE IF GlobRoot(g) = 1 THEN 1 ELSE 2]
  /\ UNCHANGED <<styleGuide, files, builderFiles, registry, registered, resets,
                 templates, userTemplates, heap, buildNo, buildState, loadTask,
                 sectionRoots, pages, savedContexts>>

\* The loop over globMatches (lines 402-450).  The scan state holds
\* foundTemplate, foundExample and the two accepted files.
NoMatch == [foundTemplate |-> FALSE, foundExample |-> FALSE,
            file |-> NoFile, exampleFile |-> NoFile]

\* Variant: the scan stops as soon as either name has been found.
KeepsScanningUntilEither(st) == ~st.foundTemplate /\ ~st.foundExample

\* if (!foundTemplate || !foundExample)
KeepsScanning(st) == ~st.foundTemplate \/ ~st.foundExample

\* Variant: a later match replaces the accepted one.
AcceptsTemplateAgain(st, filename, t) == filename = t.name

\* if (!foundTemplate && filename === template.name)
AcceptsTemplate(st, filename, t) == ~st.foundTemplate /\ filename = t.name

\* else if (!foundExample && filename === template.exampleName)
AcceptsExample(st, filename, t) == ~st.foundExample /\ filename = t.exampleName

RECURSIVE ScanFiles(_, _, _, _)
ScanFiles(matched, j, st, t) ==
  IF j > Len(matched) THEN st
  ELSE LET file == matched[j]
           filename == Basename(file.path)
       IN ScanFiles(matched, j + 1,
            IF AcceptsTemplate(st, filename, t)
            THEN [st EXCEPT !.foundTemplate = TRUE, !.file = file]
            ELSE IF AcceptsExample(st, filename, t)
            THEN [st EXCEPT !.foundExample = TRUE, !.exampleFile = file]
            ELSE st, t)

RECURSIVE ScanMatches(_, _, _, _)
ScanMatches(globMatches, k, st, t) ==
  IF k > Len(globMatches) THEN st
  ELSE ScanMatches(globMatches, k + 1,
         IF KeepsScanning(st) THEN ScanFiles(globMatches[k], 1, st, t) ELSE st, t)

\* Promise.all(findTemplates) gives the results in the order of findTemplates.
GlobMatches(t) == [g \in GlobIndexes |-> t.globs[g].files]

Locate(t) == ScanMatches(GlobMatches(t), 1, NoMatch, t)

\* Variant: the marker is not appended.
NotFoundMarkupUnmarked(markup) == markup

\* The markup the not-found branch leaves in template.markup (line 454).
NotFoundMarkup(markup) == markup \o NotFoundMarker

\* Variant: the stand-in is compiled from the markup text.
StandInFromMarkup(eng, template, b) == CompileInline(eng, template, b)

\* Variant: nothing is compiled when only the example was found.
StandInSkipped(eng, template, b) ==
  [ok |-> TRUE, registry |-> eng.registry, registered |-> eng.registered]

\* The empty template compiled under the main identity when only the example
\* was found (lines 461-469).
StandIn(eng, template, b) == TwigAsyncData(eng, template.name, EmptyTemplateData, b)

\* The then-handler of Promise.all(findTemplates) (lines 401-478): the scan,
\* the file compiles it issues and the fallback compiles it performs at once.
Located(i) ==
  /\ tmpl[i].pc = "glob"
  /\ \A g \in GlobIndexes : tmpl[i].globs[g].done
  /\ LET t == tmpl[i]
         st == Locate(t)
         eng == [registry |-> registry, registered |-> registered]
         notFound == ~st.foundTemplate /\ ~st.foundExample
         t1 == [t EXCEPT !.file = IF st.foundTemplate THEN st.file ELSE @,
                         !.exampleFile = st.exampleFile,
                         !.markup = IF notFound THEN NotFoundMarkup(@) ELSE @]
         r == IF notFound THEN CompileInline(eng, t1, buildNo)
              ELSE IF ~st.foundTemplate
              THEN StandIn(eng, t, buildNo)
              ELSE [ok |-> TRUE, registry |-> registry, registered |-> registered]
     IN /\ tmpl' = [tmpl EXCEPT ![i] =
                      [t1 EXCEPT !.pc = IF r.ok THEN "compile" ELSE "failed",
                                 !.pending = (IF st.foundTemplate THEN {"main"} ELSE {})
                                     \cup (IF st.foundExample THEN {"example"} ELSE {})]]
        /\ registry' = r.registry
        /\ registered' = r.registered
        /\ buildState' = IF r.ok THEN buildState ELSE Rejected(buildState)
  /\ UNCHANGED <<styleGuide, files, builderFiles, resets, templates,
                 userTemplates, heap, buildNo, loadTask, sectionRoots, pages,
                 savedContexts>>

\* What the file system holds at a located path.
FileAt(file) ==
  LET listing == files[file.root]
  IN listing[CHOOSE k \in DOMAIN listing : listing[k].path = file.path]

\* Variant: the sample .json is taken to load whatever it holds.
RequireAny(entry) == TRUE

\* Whether require() of the template's .json returns; it throws when the
\* file is absent or cannot be parsed, and the catch assigns {}.
RequireJSON(entry) == entry.json = "obj"

\* require(<the template's .json>): the module object, cached by path.
Require(h, file) ==
  IF Has(h, ModuleObj(file)) THEN h
  ELSE [o \in DOMAIN h \cup {ModuleObj(file)} |->
          IF o = ModuleObj(file) THEN SampleContext ELSE h[o]]

\* template.context = {} (a new object)
NewObject(h, o) == [x \in DOMAIN h \cup {o} |-> IF x = o THEN EmptyContext ELSE h[x]]

\* twigAsync({id: template.name, path: file}) settles (lines 414-426): the
\* engine registers the compiled file and the handler loads the sample
\* context; a file the engine cannot compile rejects the section's task.
CompileTemplateDone(i) ==
  /\ "main" \in tmpl[i].pending
  /\ LET t == tmpl[i]
         entry == FileAt(t.file)
     IN IF entry.bad
        THEN /\ tmpl' = [tmpl EXCEPT ![i].pending = @ \ {"main"}, ![i].pc = "failed"]
             /\ buildState' = Rejected(buildState)
             /\ UNCHANGED <<registry, registered, heap>>
        ELSE /\ registry' = Register(registry, PathTemplate(t.name, t.file, buildNo))
             /\ registered' = Count(registered, t.name)
             /\ IF RequireJSON(entry)
                THEN /\ heap' = Require(heap, t.file)
                     /\ tmpl' = [tmpl EXCEPT ![i].pending = @ \ {"main"},
                                             ![i].context = ModuleObj(t.file)]
                ELSE /\ heap' = NewObject(heap, LiteralObj(i, "context"))
                     /\ tmpl' = [tmpl EXCEPT ![i].pending = @ \ {"main"},
                                             ![i].context = LiteralObj(i, "context")]
             /\ UNCHANGED buildState
  /\ UNCHANGED <<styleGuide, files, builderFiles, resets, templates,
                 userTemplates, buildNo, loadTask, sectionRoots, pages, savedContexts>>

\* twigAsync({id: template.exampleName, path: file}) settles (lines 432-445).
CompileExampleDone(i) ==
  /\ "example" \in tmpl[i].pending
  /\ LET t == tmpl[i]
         entry == FileAt(t.exampleFile)
     IN IF entry.bad
        THEN /\ tmpl' = [tmpl EXCEPT ![i].pending = @ \ {"example"}, ![i].pc = "failed"]
             /\ buildState' = Rejected(buildState)
             /\ UNCHANGED <<registry, registered, heap>>
        ELSE /\ registry' = Register(registry,
                              PathTemplate(t.exampleName, t.exampleFile, buildNo))
             /\ registered' = Count(registered, t.exampleName)
             /\ IF RequireJSON(entry)
                THEN /\ heap' = Require(heap, t.exampleFile)
                     /\ tmpl' = [tmpl EXCEPT ![i].pending = @ \ {"example"},
                                             ![i].exampleContext = ModuleObj(t.exampleFile)]
                ELSE /\ heap' = NewObject(heap, LiteralObj(i, "exampleContext"))
                     /\ tmpl' = [tmpl EXCEPT ![i].pending = @ \ {"example"},
                                             ![i].exampleContext =
                                                LiteralObj(i, "exampleContext")]
             /\ UNCHANGED buildState
  /\ UNCHANGED <<styleGuide, files, builderFiles, resets, templates,
                 userTemplates, buildNo, loadTask, sectionRoots, pages, savedContexts>>

\* Variant: exampleRef is set from exampleName, whether or not a file was found.
TemplateRecordByName(template) ==
  [ref |-> template.name,
   context |-> template.context,
   exampleRef |-> template.exampleName,
   exampleContext |-> template.exampleContext]

\* saveTemplate(template) (lines 344-353)
TemplateRecord(template) ==
  [ref |-> template.name,
   context |-> template.context,
   exampleRef |-> IF template.exampleFile # NoFile THEN template.exampleName ELSE <<>>,
   exampleContext |-> template.exampleContext]

Put(f, k, v) == [x \in DOMAIN f \cup {k} |-> IF x = k THEN v ELSE f[x]]

\* The section's task reaches saveTemplate: at once for an inline section,
\* after Promise.all(compileTemplates) for a file reference.
SaveTemplate(i) ==
  /\ \/ tmpl[i].pc = "inline"
     \/ tmpl[i].pc = "compile" /\ tmpl[i].pending = {}
  /\ LET t == tmpl[i]
     IN /\ userTemplates' = Put(userTemplates, t.reference, TemplateRecord(t))
        /\ savedContexts' = Put(savedContexts, t.reference,
                               [context |-> heap[t.context],
                                exampleContext |-> heap[t.exampleContext]])
  /\ tmpl' = [tmpl EXCEPT ![i].pc = "saved", ![i].first = 0]
  /\ UNCHANGED <<styleGuide, files, builderFiles, registry, registered, resets,
                 templates, heap, buildNo, buildState, loadTask, sectionRoots, pages>>

\* ---------------------------------------------------------------- pages
\* styleGuide.sections(rootReference + '.*'): the section with that reference
\* and its descendants, in style guide order.
RECURSIVE SectionsUnder(_, _, _)
SectionsUnder(sections, k, rootReference) ==
  IF k > Len(sections) THEN <<>>
  ELSE LET ref == sections[k].reference
           hit == \/ ref = rootReference
                  \/ StartsWith(ref, rootReference \o <<".">>)
                  \/ StartsWith(ref, rootReference \o <<" ", "-", " ">>)
       IN (IF hit THEN <<sections[k]>> ELSE <<>>)
          \o SectionsUnder(sections, k + 1, rootReference)

\* The synchronous part of buildPage() (lines 527-548): section.toJSON() for
\* each section of the page and, for a section with markup, the lookup of its
\* TemplateRecord and of the compiled template it names.
PageSection(section) ==
  LET hasMarkup == section.markup # <<>>
      known == hasMarkup /\ Has(userTemplates, section.reference)
  IN [reference |-> section.reference,
      pc |-> IF hasMarkup THEN "markup" ELSE "skip",
      template |-> IF known
                   THEN TwigAsyncRef(registry, userTemplates[section.reference].ref)
                   ELSE NoTemplate,
      exampleTemplate |-> NoTemplate,
      markup |-> NoOutput,
      example |-> NoOutput,
      modifiers |-> [m \in DOMAIN section.modifiers |->
                       [className |-> section.modifiers[m], markup |-> NoOutput]]]

BuildPage(templateName, pageReference, sections) ==
  [templateName |-> templateName,
   pageReference |-> pageReference,
   sections |-> [k \in DOMAIN sections |-> PageSection(sections[k])],
   pageTemplate |-> NoTemplate,
   fileName |-> <<>>,
   writes |-> 0,
   pc |-> "render"]

\* buildPageTasks (lines 489-508): the homepage, one page per root reference,
\* and one page per section when there is an item template.
BuildPageTasks ==
  <<BuildPage("index", <<>>, <<>>)>>
  \o [r \in DOMAIN sectionRoots |->
        BuildPage("section", sectionRoots[r],
                  SectionsUnder(styleGuide, 1, sectionRoots[r]))]
  \o (IF templates.item # NoTemplate
      THEN [i \in DOMAIN styleGuide |->
              BuildPage("item", styleGuide[i].reference, <<styleGuide[i]>>)]
      ELSE <<>>)

\* Variant: the pages wait for the load chain only.
LoadTaskFulfilled == loadTask.steps = <<>> /\ ~loadTask.failed

\* Promise.all(buildTasks) is fulfilled: the load chain and every section's
\* task have been fulfilled.
BuildTasksFulfilled ==
  /\ loadTask.steps = <<>> /\ ~loadTask.failed
  /\ \A i \in DOMAIN tmpl : tmpl[i].pc \in {"none", "saved"}

StartPages ==
  /\ buildState = "tasks"
  /\ BuildTasksFulfilled
  /\ pages' = BuildPageTasks
  /\ buildState' = "pages"
  /\ UNCHANGED <<styleGuide, files, builderFiles, registry, registered, resets,
                 templates, userTemplates, heap, buildNo, loadTask, tmpl,
                 sectionRoots, savedContexts>>

\* ---------------------------------------------------------------- renderer
\* Variant: the context itself is used, not a copy.
SameObject(h, o) == [heap |-> h, ref |-> o]

\* JSON.parse(JSON.stringify(context)): a new object holding the plain JSON
\* value of the context (a Twig.Markup wrapper serialises as its string).
JSONCopy(h, o) ==
  [heap |-> [x \in DOMAIN h \cup {ScratchObj} |->
               IF x = ScratchObj THEN [h[o] EXCEPT !.safe = FALSE] ELSE h[x]],
   ref |-> ScratchObj]

\* The copy is garbage once the handler returns.
Collect(h) == [x \in DOMAIN h \ {ScratchObj} |-> h[x]]

\* Variant: the placeholder is appended whether or not there are modifiers.
WithPlaceholderAlways(data, modifiers) ==
  LET mc == IF data.hasMc THEN data.mc ELSE <<>>
  IN [data EXCEPT !.hasMc = TRUE,
                  !.mc = mc \o (IF mc # <<>> THEN <<" ">> ELSE <<>>) \o placeholder]

\* data.modifier_class = data.modifier_class || '';
\* if (section.modifiers.length !== 0 && this.options.placeholder)
\*   data.modifier_class += (data.modifier_class ? ' ' : '') + placeholder
WithPlaceholder(data, modifiers) ==
  LET mc == IF data.hasMc THEN data.mc ELSE <<>>
  IN [data EXCEPT !.hasMc = TRUE,
                  !.mc = IF Len(modifiers) # 0 /\ placeholder # <<>>
                         THEN mc \o (IF mc # <<>> THEN <<" ">> ELSE <<>>) \o placeholder
                         ELSE mc]

\* Variant: the modifier's class name replaces the existing value.
WithModifierOnly(data, className) ==
  [data EXCEPT !.hasMc = TRUE, !.mc = <<className>>]

\* data.modifier_class =
\*   (data.modifier_class ? data.modifier_class + ' ' : '') + modifier.className
WithModifier(data, className) ==
  LET mc == IF data.hasMc THEN data.mc ELSE <<>>
  IN [data EXCEPT !.hasMc = TRUE,
                  !.mc = (IF mc # <<>> THEN mc \o <<" ">> ELSE <<>>) \o <<className>>]

\* safeMarkup(input) on an object: every value replaced, in place, by its
\* Twig.Markup wrapper.
SafeMarkup(data) == [data EXCEPT !.safe = data.hasMc]

\* The first then-handler of a section's rendering (lines 549-575).
RenderMarkup(p, k) ==
  /\ pages[p].pc = "render"
  /\ pages[p].sections[k].pc = "markup"
  /\ LET section == pages[p].sections[k]
         template == section.template
     IN IF \/ template = NoTemplate
           \/ ~Has(userTemplates, section.reference)
           \/ RenderThrows(template)
        THEN /\ pages' = [pages EXCEPT ![p].sections[k].pc = "failed", ![p].pc = "failed"]
             /\ buildState' = Rejected(buildState)
             /\ UNCHANGED heap
        ELSE LET templateInfo == userTemplates[section.reference]
                 c == JSONCopy(heap, templateInfo.context)
                 h == [c.heap EXCEPT ![c.ref] =
                         SafeMarkup(WithPlaceholder(@, section.modifiers))]
                 out == Render(template, h[c.ref])
             IN /\ pages' = [pages EXCEPT
                      ![p].sections[k].markup = out,
                      ![p].sections[k].example = out,
                      ![p].sections[k].exampleTemplate =
                         IF templateInfo.exampleRef # <<>>
                         THEN TwigAsyncRef(registry, templateInfo.exampleRef)
                         ELSE template,
                      ![p].sections[k].pc = "example"]
                /\ heap' = Collect(h)
                /\ UNCHANGED buildState
  /\ UNCHANGED <<styleGuide, files, builderFiles, registry, registered, resets,
                 templates, userTemplates, buildNo, loadTask, tmpl, sectionRoots,
                 savedContexts>>

\* Variant: the rendering is stored on every modifier of the section.
SetEveryModifierMarkup(modifiers, m, out) ==
  [j \in DOMAIN modifiers |-> [modifiers[j] EXCEPT !.markup = out]]

\* modifier.markup = template.render(...) (line 590)
SetModifierMarkup(modifiers, m, out) == [modifiers EXCEPT ![m].markup = out]

\* section.modifiers.forEach (lines 587-591), from modifier m on.
RECURSIVE RenderModifiers(_, _, _, _, _)
RenderModifiers(modifiers, m, template, h, templateContext) ==
  IF m > Len(modifiers) THEN [modifiers |-> modifiers, heap |-> h]
  ELSE LET c == JSONCopy(h, templateContext)
           h1 == [c.heap EXCEPT ![c.ref] = SafeMarkup(WithModifier(@, modifiers[m].className))]
       IN RenderModifiers(SetModifierMarkup(modifiers, m, Render(template, h1[c.ref])),
                          m + 1, template, Collect(h1), templateContext)

\* The second then-handler (lines 577-593): the example, then the modifiers.
RenderExample(p, k) ==
  /\ pages[p].sections[k].pc = "example"
  /\ LET section == pages[p].sections[k]
         template == section.exampleTemplate
         templateInfo == userTemplates[section.reference]
         isExample == templateInfo.exampleRef # <<>>
         templateContext == IF isExample THEN templateInfo.exampleContext
                            ELSE templateInfo.context
     IN IF template = NoTemplate \/ RenderThrows(template)
        THEN /\ pages' = [pages EXCEPT ![p].sections[k].pc = "failed", ![p].pc = "failed"]
             /\ buildState' = Rejected(buildState)
             /\ UNCHANGED heap
        ELSE LET c == JSONCopy(heap, templateContext)
                 h == [c.heap EXCEPT ![c.ref] =
                         SafeMarkup(WithPlaceholder(@, section.modifiers))]
                 h1 == IF isExample THEN Collect(h) ELSE heap
                 r == RenderModifiers(section.modifiers, 1, template, h1, templateContext)
             IN /\ pages' = [pages EXCEPT
                      ![p].sections[k].example =
                         IF isExample THEN Render(template, h[c.ref]) ELSE @,
                      ![p].sections[k].modifiers = r.modifiers,
                      ![p].sections[k].pc = "done"]
                /\ heap' = r.heap
                /\ UNCHANGED buildState
  /\ UNCHANGED <<styleGuide, files, builderFiles, registry, registered, resets,
                 templates, userTemplates, buildNo, loadTask, tmpl, sectionRoots,
                 savedContexts>>

\* ---------------------------------------------------------------- page writer
SectionsRendered(page) ==
  \A k \in DOMAIN page.sections : page.sections[k].pc \in {"skip", "done"}

\* styleGuide.sections(pageReference): the section with that reference.
RootSection(pageReference) ==
  styleGuide[CHOOSE i \in DOMAIN styleGuide : styleGuide[i].reference = pageReference]

\* section.referenceURI(): the reference made safe for a URI, each character
\* that is not allowed in one replaced by its percent escape.
RECURSIVE ReferenceURI(_)
ReferenceURI(reference) ==
  IF reference = <<>> THEN <<>>
  ELSE (IF Head(reference) = " " THEN <<"%", "2", "0">>
        ELSE IF Head(reference) = "%" THEN <<"%", "2", "5">>
        ELSE <<Head(reference)>>)
       \o ReferenceURI(Tail(reference))

\* Variant: the file name does not start with the template name.
FileNameByReference(templateName, pageReference) ==
  (IF pageReference # <<>>
   THEN ReferenceURI(RootSection(pageReference).reference) ELSE <<>>)
  \o <<".html">>

\* fileName = templateName + (pageReference ? '-' + pageReference : '') + '.html',
\* pageReference having been replaced by rootSection.referenceURI() (lines 630-646).
FileName(templateName, pageReference) ==
  <<templateName>>
  \o (IF pageReference # <<>>
      THEN <<"-">> \o ReferenceURI(RootSection(pageReference).reference) ELSE <<>>)
  \o <<".html">>

\* The then-handler of the page's renderings (lines 600-686) for a section or
\* item page: the page template is rendered and the write is issued.
AssemblePage(p) ==
  /\ pages[p].pc = "render"
  /\ pages[p].templateName # "index"
  /\ SectionsRendered(pages[p])
  /\ pages' = [pages EXCEPT ![p].pageTemplate = templates[pages[p].templateName],
                            ![p].fileName = FileName(pages[p].templateName,
                                                     pages[p].pageReference),
                            ![p].writes = @ + 1,
                            ![p].pc = "writing"]
  /\ UNCHANGED <<styleGuide, files, builderFiles, registry, registered, resets,
                 templates, userTemplates, heap, buildNo, buildState, loadTask, tmpl,
                 sectionRoots, savedContexts>>

\* The homepage: the homepage text is globbed and read first (lines 654-677).
AssembleHomepage(p) ==
  /\ pages[p].pc = "render"
  /\ pages[p].templateName = "index"
  /\ SectionsRendered(pages[p])
  /\ pages' = [pages EXCEPT ![p].fileName = FileName(pages[p].templateName,
                                                     pages[p].pageReference),
                            ![p].pc = "homepage"]
  /\ UNCHANGED <<styleGuide, files, builderFiles, registry, registered, resets,
                 templates, userTemplates, heap, buildNo, buildState, loadTask, tmpl,
                 sectionRoots, savedContexts>>

HomepageText(p) ==
  /\ pages[p].pc = "homepage"
  /\ pages' = [pages EXCEPT ![p].pageTemplate = templates[pages[p].templateName],
                            ![p].writes = @ + 1,
                            ![p].pc = "writing"]
  /\ UNCHANGED <<styleGuide, files, builderFiles, registry, registered, resets,
                 templates, userTemplates, heap, buildNo, buildState, loadTask, tmpl,
                 sectionRoots, savedContexts>>

\* fs.writeFileAsync settles: the page is written, or the write fails.
WriteDone(p) ==
  /\ pages[p].pc = "writing"
  /\ pages' = [pages EXCEPT ![p].pc = "written"]
  /\ UNCHANGED <<styleGuide, files, builderFiles, registry, registered, resets,
                 templates, userTemplates, heap, buildNo, buildState, loadTask, tmpl,
                 sectionRoots, savedContexts>>

WriteFailed(p) ==
  /\ pages[p].pc = "writing"
  /\ pages' = [pages EXCEPT ![p].pc = "failed"]
  /\ buildState' = Rejected(buildState)
  /\ UNCHANGED <<styleGuide, files, builderFiles, registry, registered, resets,
                 templates, userTemplates, heap, buildNo, loadTask, tmpl,
                 sectionRoots, savedContexts>>

\* Promise.all(buildPageTasks) is fulfilled: build() resolves (lines 509-512).
BuildResolved ==
  /\ buildState = "pages"
  /\ \A p \in DOMAIN pages : pages[p].pc = "written"
  /\ buildState' = "resolved"
  /\ UNCHANGED <<styleGuide, files, builderFiles, registry, registered, resets,
                 templates, userTemplates, heap, buildNo, loadTask, tmpl,
                 sectionRoots, pages, savedContexts>>

\* ---------------------------------------------------------------- specification
Scenario(sg, fs, builder) == [styleGuide |-> sg, files |-> fs, builderFiles |-> builder]

\* One file-referencing section against every arrangement of the roots.
LocatorScenarios ==
  {Scenario(OneFileGuide, fs, AllPresent) : fs \in [Roots -> RootContents]}

OtherScenarios ==
  { Scenario(InlineGuide, OnlyFirstRoot(<<>>), IndexOnly),
    Scenario(InlineGuide, OnlyFirstRoot(<<>>), NoIndex),
    Scenario(InlineGuide, OnlyFirstRoot(<<>>), NoItem),
    Scenario(NumericGuide, OnlyFirstRoot(<<>>), AllPresent),
    Scenario(WordGuide, OnlyFirstRoot(<<>>), AllPresent),
    Scenario(InlineGuide, OnlyFirstRoot(<<>>), NoSection),
    Scenario(BadInlineGuide, OnlyFirstRoot(<<>>), AllPresent),
    Scenario(ThrowingGuide, OnlyFirstRoot(<<>>), IndexOnly),
    Scenario(TwoLineGuide, OnlyFirstRoot(<<FileEntry(BTwig, "obj", FALSE)>>), IndexOnly),
    Scenario(BareExtensionGuide, OnlyFirstRoot(<<FileEntry(DotTwig, "obj", FALSE)>>),
             IndexOnly),
    Scenario(InlineGuide, OnlyFirstRoot(<<>>), MalformedSection),
    Scenario(InlineGuide, OnlyFirstRoot(<<>>), MalformedIndex),
    Scenario(OneFileGuide, OnlyFirstRoot(<<FileEntry(BTwig, "none", TRUE)>>), AllPresent),
    Scenario(OneFileGuide,
             OnlyFirstRoot(<<FileEntry(BTwig, "bad", FALSE),
                             FileEntry(ExampleBTwig, "bad", FALSE)>>), AllPresent),
    Scenario(SharedFileGuide, OnlyFirstRoot(<<FileEntry(BTwig, "obj", FALSE)>>), AllPresent),
    Scenario(SameNameGuide, OnlyFirstRoot(<<FileEntry(BTwig, "obj", FALSE)>>), IndexOnly),
    Scenario(ModifierGuide,
             OnlyFirstRoot(<<FileEntry(BTwig, "obj", FALSE),
                             FileEntry(ExampleBTwig, "none", FALSE)>>), IndexOnly) }

Scenarios == LocatorScenarios \cup OtherScenarios

\* The builder after construction, given a style guide and a file system.
InitialState(sc) ==
  /\ styleGuide = sc.styleGuide
  /\ files = sc.files
  /\ builderFiles = sc.builderFiles
  /\ registry = Empty
  /\ registered = Empty
  /\ resets = [count |-> 0, left |-> Empty]
  /\ templates = [index |-> NoTemplate, section |-> NoTemplate, item |-> NoTemplate]
  /\ userTemplates = Empty
  /\ heap = Empty
  /\ buildNo = 0
  /\ buildState = "idle"
  /\ loadTask = [steps |-> <<>>, failed |-> FALSE, caught |-> {}]
  /\ tmpl = <<>>
  /\ sectionRoots = <<>>
  /\ pages = <<>>
  /\ savedContexts = Empty

Init == \E sc \in Scenarios : InitialState(sc)

Next ==
  \/ Build
  \/ LoadIndex
  \/ LoadSection
  \/ LoadItem
  \/ \E i \in DOMAIN tmpl : \E g \in GlobIndexes : GlobDone(i, g)
  \/ \E i \in DOMAIN tmpl : Located(i)
  \/ \E i \in DOMAIN tmpl : CompileTemplateDone(i)
  \/ \E i \in DOMAIN tmpl : CompileExampleDone(i)
  \/ \E i \in DOMAIN tmpl : SaveTemplate(i)
  \/ StartPages
  \/ \E p \in DOMAIN pages : \E k \in DOMAIN pages[p].sections : RenderMarkup(p, k)
  \/ \E p \in DOMAIN pages : \E k \in DOMAIN pages[p].sections : RenderExample(p, k)
  \/ \E p \in DOMAIN pages : AssemblePage(p)
  \/ \E p \in DOMAIN pages : AssembleHomepage(p)
  \/ \E p \in DOMAIN pages : HomepageText(p)
  \/ \E p \in DOMAIN pages : WriteDone(p)
  \/ \E p \in DOMAIN pages : WriteFailed(p)
  \/ BuildResolved

Spec == Init /\ [][Next]_vars

\* The callbacks of a build: every step but the call of build() itself.  No
\* time limit is imposed, and every file-system, compile and render operation
\* completes or fails, so a callback that is ready is eventually run.
Callbacks ==
  \/ LoadIndex
  \/ LoadSection
  \/ LoadItem
  \/ \E i \in DOMAIN tmpl : \E g \in GlobIndexes : GlobDone(i, g)
  \/ \E i \in DOMAIN tmpl : Located(i)
  \/ \E i \in DOMAIN tmpl : CompileTemplateDone(i)
  \/ \E i \in DOMAIN tmpl : CompileExampleDone(i)
  \/ \E i \in DOMAIN tmpl : SaveTemplate(i)
  \/ StartPages
  \/ \E p \in DOMAIN pages : \E k \in DOMAIN pages[p].sections : RenderMarkup(p, k)
  \/ \E p \in DOMAIN pages : \E k \in DOMAIN pages[p].sections : RenderExample(p, k)
  \/ \E p \in DOMAIN pages : AssemblePage(p)
  \/ \E p \in DOMAIN pages : AssembleHomepage(p)
  \/ \E p \in DOMAIN pages : HomepageText(p)
  \/ \E p \in DOMAIN pages : WriteDone(p)
  \/ \E p \in DOMAIN pages : WriteFailed(p)
  \/ BuildResolved

\* The scenarios followed to the end of every behaviour: the source files are
\* all in the first root, and at most one of at most two sections references
\* a file.
LiveScenarios ==
  {sc \in Scenarios :
     /\ \A r \in Roots \ {1} : sc.files[r] = <<>>
     /\ Len(sc.styleGuide) <= 2
     /\ Cardinality({i \in DOMAIN sc.styleGuide : IsFilePath(sc.styleGuide[i].markup)}) <= 1}

LiveInit == \E sc \in LiveScenarios : InitialState(sc)

LiveSpec == LiveInit /\ [][Next]_vars /\ WF_vars(Callbacks)

\* ---------------------------------------------------------------- properties
\* The roots that hold a file matching a pattern, and the file a search by
\* root rank accepts: the first match of the lowest such root.
RootsWith(pattern) == {r \in Roots : Glob(r, pattern) # <<>>}
LowestRoot(pattern) == CHOOSE r \in RootsWith(pattern) : \A q \in RootsWith(pattern) : r <= q
FirstByRank(pattern) ==
  IF RootsWith(pattern) = {} THEN NoFile ELSE Glob(LowestRoot(pattern), pattern)[1]

FileSections == {i \in DOMAIN tmpl : IsFilePath(styleGuide[i].markup)}
\* The file sections whose search has been joined and scanned.
LocatedSections == {i \in FileSections : tmpl[i].pc # "glob"}
ExampleNameOf(i) == KssExamplePrefix \o Basename(styleGuide[i].markup)

\* C1: for each of the two searched names, the file accepted is the first
\* match of the lowest-ranked source root holding the name, whatever order the
\* searches completed in; a name no root holds is accepted from none.
C1_FirstRootWins ==
  \A i \in LocatedSections :
    /\ IF RootsWith(styleGuide[i].markup) = {}
       THEN tmpl[i].file = [root |-> 0, path |-> styleGuide[i].markup]
       ELSE tmpl[i].file = FirstByRank(styleGuide[i].markup)
    /\ tmpl[i].exampleFile = FirstByRank(ExampleNameOf(i))
    /\ "main" \in tmpl[i].pending => tmpl[i].file.root \in RootsWith(styleGuide[i].markup)

\* C1 witness: two roots hold the main file, a search of a later root
\* completed first, and the first root's file was accepted.
C1_Witness ==
  \E i \in LocatedSections :
    /\ Cardinality(RootsWith(styleGuide[i].markup)) >= 2
    /\ tmpl[i].first = 2
    /\ tmpl[i].file.root = 1
    /\ "main" \in tmpl[i].pending

\* C2: the two names are located independently: each is found exactly when
\* some root holds it, and from that name's own lowest root, whichever of the
\* two roots is the earlier.
C2_Independent ==
  \A i \in LocatedSections :
    LET mainRoots == RootsWith(styleGuide[i].markup)
        exampleRoots == RootsWith(ExampleNameOf(i))
    IN /\ (tmpl[i].file.root # 0) = (mainRoots # {})
       /\ (tmpl[i].exampleFile.root # 0) = (exampleRoots # {})
       /\ mainRoots # {} => tmpl[i].file.root = LowestRoot(styleGuide[i].markup)
       /\ exampleRoots # {} => tmpl[i].exampleFile.root = LowestRoot(ExampleNameOf(i))

\* C2 witness: the example was accepted from a later root than the main file.
C2_Witness ==
  \E i \in LocatedSections :
    /\ tmpl[i].file.root # 0
    /\ tmpl[i].exampleFile.root > tmpl[i].file.root

\* C2, the other way round: the main file from a later root than the example.
C2_WitnessMainLater ==
  \E i \in LocatedSections :
    /\ tmpl[i].exampleFile.root # 0
    /\ tmpl[i].file.root > tmpl[i].exampleFile.root

\* The file sections for which no root holds the main file or the example.
NotFoundSections ==
  {i \in FileSections : /\ RootsWith(styleGuide[i].markup) = {}
                        /\ RootsWith(ExampleNameOf(i)) = {}}

\* A rendering shows the marker when it comes from an inline template whose
\* text ends in it.
ContainsMarker(out) == out.tpl.kind = "data" /\ EndsWith(out.tpl.text, NotFoundMarker)

PagesOf(kind, ref) ==
  {p \in DOMAIN pages :
     /\ pages[p].templateName = kind
     /\ \E k \in DOMAIN pages[p].sections : pages[p].sections[k].reference = ref}

\* C3: a file reference found under no root is recovered: its task does not
\* fail, every rendering of the section shows the NOT FOUND marker, and a
\* build that resolves has written its section page and its item page.
C3_NotFoundRecovered ==
  \A i \in NotFoundSections :
    LET ref == styleGuide[i].reference
    IN /\ tmpl[i].pc # "failed"
       /\ \A p \in DOMAIN pages : \A k \in DOMAIN pages[p].sections :
            (pages[p].sections[k].reference = ref
               /\ pages[p].sections[k].pc \in {"example", "done"})
            => ContainsMarker(pages[p].sections[k].markup)
       /\ buildState = "resolved" =>
            /\ \E p \in PagesOf("section", ref) : pages[p].pc = "written"
            /\ \E p \in PagesOf("item", ref) : pages[p].pc = "written"

\* The step in which section i's search is joined and scanned.
LocatesNotFound(i) ==
  /\ i \in NotFoundSections
  /\ tmpl[i].pc = "glob"
  /\ tmpl'[i].pc # "glob"

\* C4 as claimed: the fallback template compiled for a not-found section has
\* the section's original markup text as its source.
C4_FallbackIsOriginalMarkup ==
  [][\A i \in DOMAIN tmpl :
       LocatesNotFound(i) =>
         /\ Has(registry', tmpl[i].name)
         /\ registry'[tmpl[i].name] =
              DataTemplate(tmpl[i].name, styleGuide[i].markup, buildNo)]_vars

\* C4 as amended: the fallback template's source is the markup text with the
\* NOT FOUND marker appended, the same string template.markup then holds.
C4_FallbackIsMarkedMarkup ==
  [][\A i \in DOMAIN tmpl :
       LocatesNotFound(i) =>
         /\ Has(registry', tmpl[i].name)
         /\ registry'[tmpl[i].name] =
              DataTemplate(tmpl[i].name, styleGuide[i].markup \o NotFoundMarker, buildNo)
         /\ tmpl'[i].markup = styleGuide[i].markup \o NotFoundMarker]_vars

\* C4 witness: a not-found section whose fallback has been compiled and is
\* registered with the marked text.
C4_Witness ==
  \E i \in NotFoundSections :
    /\ tmpl[i].pc \in {"compile", "saved"}
    /\ Has(registry, tmpl[i].name)
    /\ registry[tmpl[i].name].text = styleGuide[i].markup \o NotFoundMarker

\* C5: between the reset and the end of the build no identity is registered
\* more than once, and none is removed.
C5_AppendOnly ==
  \A id \in DOMAIN registered :
    /\ registered[id] <= 1
    /\ Has(registry, id)

\* The renderings of sections on the pages of the current build.
Renderings == {<<p, k>> \in (DOMAIN pages) \X (1..Len(styleGuide)) :
                 k \in DOMAIN pages[p].sections}
PageSectionAt(pk) == pages[pk[1]].sections[pk[2]]

\* Every section and example template handle a page has used was compiled by
\* the current build.
SectionHandlesFresh ==
  \A pk \in Renderings :
    /\ PageSectionAt(pk).pc \in {"example", "done"} =>
         PageSectionAt(pk).template.build = buildNo
    /\ PageSectionAt(pk).pc = "done" =>
         PageSectionAt(pk).exampleTemplate.build = buildNo

PageTemplateNames == {"index", "section", "item"}

\* C6 as claimed: every handle a build uses, the page templates included, was
\* compiled during that build.
C6_NoStaleHandle ==
  /\ SectionHandlesFresh
  /\ \A p \in DOMAIN pages :
       pages[p].pageTemplate # NoTemplate => pages[p].pageTemplate.build = buildNo

\* C6 as amended: section and example handles are compiled by the build that
\* uses them; the page templates are compiled by the first build that loads
\* them and kept in this.templates, and a later build renders its pages with
\* those handles although its reset has dropped them from the registry.
C6_PageTemplatesKept ==
  /\ [](/\ SectionHandlesFresh
        /\ \A p \in DOMAIN pages :
             pages[p].pageTemplate # NoTemplate =>
               /\ pages[p].pageTemplate = templates[pages[p].templateName]
               /\ pages[p].pageTemplate.build \in 1..buildNo
        /\ \A n \in PageTemplateNames :
             (templates[n] # NoTemplate /\ templates[n].build < buildNo) =>
               ~Has(registry, templates[n].id))
  /\ [][\A n \in PageTemplateNames :
          templates[n] # NoTemplate => templates'[n] = templates[n]]_vars

\* C6 witness: in a second build, a section rendered with a handle of that
\* build on a page written with a page template of the first build.
C6_Witness ==
  \E pk \in Renderings :
    /\ buildNo = 2
    /\ PageSectionAt(pk).pc = "done"
    /\ PageSectionAt(pk).template.build = 2
    /\ pages[pk[1]].pc = "written"
    /\ pages[pk[1]].pageTemplate.build = 1

\* C7: each build() resets the registry exactly once, before any compile of
\* that build: the reset leaves no identity, everything registered afterwards
\* belongs to the current build, and the build starts with no TemplateRecord.
C7_ResetOncePerBuild ==
  /\ [](/\ resets.count = buildNo
        /\ resets.left = Empty
        /\ \A id \in DOMAIN registry : registry[id].build = buildNo)
  /\ [][buildNo' # buildNo =>
          /\ buildNo' = buildNo + 1
          /\ resets'.count = resets.count + 1
          /\ userTemplates' = Empty
          /\ \A id \in DOMAIN registry' : registry'[id].kind = "data"]_vars

\* C7 witness: a second build has just been started after a first one that
\* had compiled index.twig and saved records; neither is left.
C7_Witness ==
  /\ buildNo = 2
  /\ buildState = "tasks"
  /\ templates.index # NoTemplate
  /\ ~Has(registry, IndexId)
  /\ userTemplates = Empty
  /\ \E i \in DOMAIN tmpl : tmpl[i].pc # "none"

\* C8: pages exist only once the load chain and every section's task have
\* been fulfilled and every record is saved; after a failed task there are none.
C8_Barrier ==
  /\ pages # <<>> =>
       /\ loadTask.steps = <<>> /\ ~loadTask.failed
       /\ \A i \in DOMAIN tmpl :
            /\ tmpl[i].pc \in {"none", "saved"}
            /\ tmpl[i].pending = {}
            /\ tmpl[i].pc = "saved" => Has(userTemplates, styleGuide[i].reference)
  /\ (loadTask.failed \/ \E i \in DOMAIN tmpl : tmpl[i].pc = "failed") => pages = <<>>

\* C8 witness: pages are being built after a not-found section was recovered.
C8_Witness ==
  /\ \E p \in DOMAIN pages : pages[p].pc = "written"
  /\ \E i \in NotFoundSections : tmpl[i].pc = "saved"

\* C9: every context a TemplateRecord holds still has the value it had when
\* the record was saved.
C9_ContextsUnchanged ==
  \A ref \in DOMAIN userTemplates :
    /\ Has(heap, userTemplates[ref].context)
    /\ Has(heap, userTemplates[ref].exampleContext)
    /\ heap[userTemplates[ref].context] = savedContexts[ref].context
    /\ heap[userTemplates[ref].exampleContext] = savedContexts[ref].exampleContext

\* C9 witness: a section with a modifier has been rendered, main and modifier,
\* from data that differs from the stored sample context it was copied from.
C9_Witness ==
  \E pk \in Renderings :
    LET section == PageSectionAt(pk)
    IN /\ section.pc = "done"
       /\ Len(section.modifiers) > 0
       /\ Has(userTemplates, section.reference)
       /\ heap[userTemplates[section.reference].context] = SampleContext
       /\ section.markup.data # SampleContext
       /\ section.modifiers[1].markup.data # section.markup.data

\* C10: a record has an example identity exactly when an example file was
\* located for its section; without one the example view is the canonical
\* rendering, from the same template.
C10_ExampleLinkage ==
  /\ \A i \in DOMAIN tmpl :
       tmpl[i].pc = "saved" =>
         LET rec == userTemplates[styleGuide[i].reference]
             located == i \in FileSections /\ RootsWith(ExampleNameOf(i)) # {}
         IN /\ (rec.exampleRef # <<>>) = located
            /\ located => rec.exampleRef = ExampleNameOf(i)
  /\ \A pk \in Renderings :
       LET section == PageSectionAt(pk)
       IN (section.pc = "done" /\ userTemplates[section.reference].exampleRef = <<>>) =>
            /\ section.example = section.markup
            /\ section.exampleTemplate = section.template

\* C10 witness: a file section with a main file, no example file and a
\* modifier, fully rendered.
C10_Witness ==
  \E pk \in Renderings :
    LET section == PageSectionAt(pk)
    IN /\ section.pc = "done"
       /\ section.template.kind = "path"
       /\ userTemplates[section.reference].exampleRef = <<>>
       /\ Len(section.modifiers) > 0
       /\ section.example = section.markup

\* The step in which the second handler of section k on page p renders the
\* example and the modifiers.
RendersModifiers(p, k) ==
  /\ pages[p].sections[k].pc = "example"
  /\ p \in DOMAIN pages'
  /\ pages'[p].sections[k].pc = "done"

\* C11: rendering the modifiers of a section leaves the section's markup as
\* it was, and its example too (which only the distinct example rendering
\* sets, never from a modifier's data); each modifier gets the rendering made
\* with its own class name and no other's; every other section of every page
\* is left as it was.
C11_ModifierIsolation ==
  [][\A p \in DOMAIN pages : \A k \in DOMAIN pages[p].sections :
       RendersModifiers(p, k) =>
         LET before == pages[p].sections[k]
             after == pages'[p].sections[k]
             distinct == userTemplates[before.reference].exampleRef # <<>>
             ms == DOMAIN before.modifiers
         IN /\ after.markup = before.markup
            /\ ~distinct => after.example = before.example
            /\ \A m \in ms : ~Contains(after.example.data.mc, before.modifiers[m].className)
            /\ \A m \in ms :
                 /\ after.modifiers[m].className = before.modifiers[m].className
                 /\ Contains(after.modifiers[m].markup.data.mc, before.modifiers[m].className)
                 /\ \A j \in ms \ {m} :
                      ~Contains(after.modifiers[m].markup.data.mc, before.modifiers[j].className)
            /\ \A q \in DOMAIN pages : \A j \in DOMAIN pages[q].sections :
                 <<q, j>> # <<p, k>> => pages'[q].sections[j] = pages[q].sections[j]]_vars

\* C11 witness: a section with two modifiers has been rendered, each modifier
\* differently, on a page where another section's markup was already computed
\* and is still what that section's own template produced.
C11_Witness ==
  \E p \in DOMAIN pages : \E k, j \in DOMAIN pages[p].sections :
    /\ k # j
    /\ pages[p].sections[k].pc = "done"
    /\ Len(pages[p].sections[k].modifiers) >= 2
    /\ pages[p].sections[k].modifiers[1].markup # pages[p].sections[k].modifiers[2].markup
    /\ pages[p].sections[k].modifiers[2].markup # NoOutput
    /\ pages[p].sections[j].pc \in {"example", "done"}
    /\ pages[p].sections[j].markup.tpl = pages[p].sections[j].template

\* Two renderings of one section, on different pages of the build.
SameSectionTwice(pk, ql) ==
  /\ pk[1] # ql[1]
  /\ PageSectionAt(pk).reference = PageSectionAt(ql).reference

\* C12: two renderings of the same section, in whatever order the handlers of
\* the two pages ran, give the same markup, the same example and the same
\* modifier renderings.
C12_Idempotent ==
  \A pk, ql \in Renderings :
    SameSectionTwice(pk, ql) =>
      LET a == PageSectionAt(pk)
          b == PageSectionAt(ql)
      IN /\ (a.pc \in {"example", "done"} /\ b.pc \in {"example", "done"}) =>
              a.markup = b.markup
         /\ (a.pc = "done" /\ b.pc = "done") =>
              /\ a.example = b.example
              /\ a.modifiers = b.modifiers

\* C12 witness: a section with a sample context, a distinct example and a
\* modifier, fully rendered on its section page and on its item page.
C12_Witness ==
  \E pk \in Renderings : \E ql \in Renderings :
    /\ SameSectionTwice(pk, ql)
    /\ PageSectionAt(pk).pc = "done" /\ PageSectionAt(ql).pc = "done"
    /\ pages[pk[1]].templateName = "section" /\ pages[ql[1]].templateName = "item"
    /\ Len(PageSectionAt(pk).modifiers) > 0
    /\ PageSectionAt(pk).markup.data.safe
    /\ PageSectionAt(pk).example # PageSectionAt(pk).markup
    /\ PageSectionAt(pk).modifiers[1].markup # NoOutput

\* The builder holds the page template and it is well-formed.
CanLoad(name) == builderFiles[name] /\ name \notin builderFiles.malformed

\* The load chain of the current build has run to its end.
LoadPhaseDone == buildNo > 0 /\ loadTask.steps = <<>> /\ ~loadTask.failed

\* C13: after the load phase the section page template is section.twig's
\* own template if the builder has it and the index template otherwise; the
\* item page template is item.twig's own if the builder has it and otherwise
\* what the section page template is; the section template is decided before
\* the item template, and only a missing index.twig fails the load chain.
C13_PageTemplateFallback ==
  /\ [](/\ LoadPhaseDone =>
             /\ templates.index.id = IndexId
             /\ IF CanLoad("section")
                THEN templates.section.kind = "path" /\ templates.section.id = SectionId
                ELSE templates.section = templates.index
             /\ IF CanLoad("item")
                THEN templates.item.kind = "path" /\ templates.item.id = ItemId
                ELSE templates.item = templates.section
        /\ templates.item # NoTemplate => templates.section # NoTemplate
        /\ templates.section # NoTemplate => templates.index # NoTemplate)
  /\ [][(~loadTask.failed /\ loadTask'.failed) =>
          (Head(loadTask.steps) = "index" /\ ~CanLoad("index"))]_vars

\* C13 witness: the builder has section.twig and no item.twig, and the item
\* pages have been written with the section template.
C13_Witness ==
  /\ LoadPhaseDone
  /\ builderFiles.section /\ ~builderFiles.item
  /\ templates.item = templates.section
  /\ templates.item.id = SectionId
  /\ \E p \in DOMAIN pages :
       /\ pages[p].templateName = "item"
       /\ pages[p].pc = "written"
       /\ pages[p].pageTemplate.id = SectionId

\* C13, the other case: no section.twig but an item.twig; the section pages
\* use the index template and the item pages their own.
C13_WitnessNoSection ==
  /\ LoadPhaseDone
  /\ ~builderFiles.section /\ builderFiles.item
  /\ templates.section = templates.index
  /\ templates.item.id = ItemId
  /\ buildState = "resolved"

\* R is the first token of ref: a prefix of ref that holds no delimiter and is
\* all of ref or is followed in ref by a delimiter.
IsFirstToken(R, ref) ==
  /\ StartsWith(ref, R)
  /\ \A i \in 1..Len(R) : ~IsDelimiterAt(ref, i)
  /\ Len(ref) = Len(R) \/ IsDelimiterAt(ref, Len(R) + 1)

SectionPages == {p \in DOMAIN pages : pages[p].templateName = "section"}
ListedOn(p) == {pages[p].sections[k].reference : k \in DOMAIN pages[p].sections}

\* C14: the section-group page of a root reference R lists exactly the
\* sections whose reference is R or starts with R and a delimiter, and R is
\* the first token of some reference; so every section is listed on the page
\* of its own first token and on no other section-group page.
C14_SectionGroupPages ==
  /\ \A p \in SectionPages :
       LET R == pages[p].pageReference
           listed == ListedOn(p)
       IN /\ \E i \in DOMAIN styleGuide : IsFirstToken(R, styleGuide[i].reference)
          /\ \A i \in DOMAIN styleGuide :
               LET ref == styleGuide[i].reference
               IN ref \in listed <=>
                    \/ ref = R
                    \/ StartsWith(ref, R \o <<".">>)
                    \/ StartsWith(ref, R \o <<" ", "-", " ">>)
          /\ Len(pages[p].sections) = Cardinality(listed)
  /\ pages # <<>> =>
       \A i \in DOMAIN styleGuide :
         \E p \in SectionPages :
           /\ styleGuide[i].reference \in ListedOn(p)
           /\ IsFirstToken(pages[p].pageReference, styleGuide[i].reference)
           /\ \A q \in SectionPages \ {p} : styleGuide[i].reference \notin ListedOn(q)

\* C14 witness: sections 1 and 1.1 are on the page of root 1, section 2
\* is not.
C14_Witness ==
  \E p \in SectionPages :
    /\ pages[p].pageReference = Ref1
    /\ ListedOn(p) = {Ref1, Ref11}
    /\ \E i \in DOMAIN styleGuide : styleGuide[i].reference = Ref2
    /\ pages[p].pc = "written"

\* C14, word references: 'a' and 'a - b' are on the page of root 'a', 'ab'
\* is not.
C14_WitnessWords ==
  \E p \in SectionPages :
    /\ pages[p].pageReference = RefA
    /\ ListedOn(p) = {RefA, RefAB}
    /\ \E i \in DOMAIN styleGuide : styleGuide[i].reference = RefAb

PagesNamed(name) == {p \in DOMAIN pages : pages[p].templateName = name}

\* The distinct first tokens of the style guide's references.
FirstTokenOf(ref) ==
  SubSeq(ref, 1, CHOOSE n \in 1..Len(ref) : IsFirstToken(SubSeq(ref, 1, n), ref))
FirstTokens == {FirstTokenOf(styleGuide[i].reference) : i \in DOMAIN styleGuide}

\* C15: the pages of a build are exactly one homepage with no sections, one
\* section-group page per distinct root reference, and (the item template is
\* set whenever the load chain succeeded) one item page per section, listing
\* that section alone; a build that resolves has written all of them.
C15_ExactPages ==
  pages # <<>> =>
    LET tokens == FirstTokens
        sectionPages == PagesNamed("section")
    IN
    /\ \A p \in DOMAIN pages : pages[p].templateName \in {"index", "section", "item"}
    /\ Cardinality(PagesNamed("index")) = 1
    /\ \A p \in PagesNamed("index") : pages[p].sections = <<>>
    /\ Cardinality(sectionPages) = Cardinality(tokens)
    /\ \A R \in tokens :
         Cardinality({p \in sectionPages : pages[p].pageReference = R}) = 1
    /\ IF templates.item # NoTemplate
       THEN /\ Cardinality(PagesNamed("item")) = Len(styleGuide)
            /\ \A i \in DOMAIN styleGuide :
                 \E p \in PagesNamed("item") :
                   /\ pages[p].pageReference = styleGuide[i].reference
                   /\ Len(pages[p].sections) = 1
                   /\ pages[p].sections[1].reference = styleGuide[i].reference
       ELSE PagesNamed("item") = {}
    /\ buildState = "resolved" => \A p \in DOMAIN pages : pages[p].pc = "written"

\* C15 witness: a resolved build of three sections without markup under two
\* roots: six pages, all written.
C15_Witness ==
  /\ buildState = "resolved"
  /\ Len(styleGuide) = 3
  /\ Cardinality(FirstTokens) = 2
  /\ Len(pages) = 6
  /\ \E i \in DOMAIN styleGuide : styleGuide[i].reference = Ref11
  /\ \A i \in DOMAIN styleGuide : styleGuide[i].markup = <<>>
  /\ \A p \in DOMAIN pages : pages[p].pc = "written"

\* The sections whose main (example) file has been located and compiled.
MainCompiled(i) ==
  /\ i \in LocatedSections
  /\ tmpl[i].file.root # 0
  /\ "main" \notin tmpl[i].pending
  /\ ~FileAt(tmpl[i].file).bad
ExampleCompiled(i) ==
  /\ i \in LocatedSections
  /\ tmpl[i].exampleFile.root # 0
  /\ "example" \notin tmpl[i].pending
  /\ ~FileAt(tmpl[i].exampleFile).bad

\* C16: a sample .json that is absent or cannot be parsed leaves the context
\* of its template the empty structure; the section's task fails only if a
\* template file does not compile, and once saved the record holds the empty
\* context.
C16_SampleLoadNeverFails ==
  \A i \in DOMAIN tmpl :
    /\ (MainCompiled(i) /\ FileAt(tmpl[i].file).json # "obj") =>
         /\ Has(heap, tmpl[i].context)
         /\ heap[tmpl[i].context] = EmptyContext
         /\ tmpl[i].pc = "saved" =>
              heap[userTemplates[tmpl[i].reference].context] = EmptyContext
    /\ (ExampleCompiled(i) /\ FileAt(tmpl[i].exampleFile).json # "obj") =>
         /\ Has(heap, tmpl[i].exampleContext)
         /\ heap[tmpl[i].exampleContext] = EmptyContext
         /\ tmpl[i].pc = "saved" =>
              heap[userTemplates[tmpl[i].reference].exampleContext] = EmptyContext
    /\ (i \in LocatedSections /\ tmpl[i].pc = "failed") =>
         \/ tmpl[i].file.root # 0 /\ FileAt(tmpl[i].file).bad
         \/ tmpl[i].exampleFile.root # 0 /\ FileAt(tmpl[i].exampleFile).bad

\* C16 witness: main and example were located, both with a .json that cannot
\* be parsed; the record is saved and the build has resolved.
C16_Witness ==
  \E i \in DOMAIN tmpl :
    /\ MainCompiled(i) /\ FileAt(tmpl[i].file).json = "bad"
    /\ ExampleCompiled(i) /\ FileAt(tmpl[i].exampleFile).json = "bad"
    /\ tmpl[i].pc = "saved"
    /\ buildState = "resolved"

\* C16, an absent .json.
C16_WitnessAbsent ==
  \E i \in DOMAIN tmpl :
    /\ MainCompiled(i) /\ FileAt(tmpl[i].file).json = "none"
    /\ tmpl[i].pc = "saved"
    /\ buildState = "resolved"

\* A compile, a render or a write of the current build has failed.
SectionCompileFailed == \E i \in DOMAIN tmpl : tmpl[i].pc = "failed"
IndexCompileFailed == loadTask.failed /\ "index" \in builderFiles.malformed
PageTemplateCompileFailed ==
  \E n \in loadTask.caught : n \in builderFiles.malformed
RenderOrWriteFailed == \E p \in DOMAIN pages : pages[p].pc = "failed"

StaysRejected ==
  [][(buildState = "rejected" /\ buildNo' = buildNo) => buildState' = "rejected"]_vars

\* C17: when the compile of any malformed template (a section's inline or
\* file template, or a page template), any render or any write fails, the
\* promise build() returned is rejected, and it stays rejected.
C17_ErrorsAreFatal ==
  /\ []((\/ SectionCompileFailed
          \/ IndexCompileFailed
          \/ PageTemplateCompileFailed
          \/ RenderOrWriteFailed) => buildState = "rejected")
  /\ StaysRejected

\* C17 without the page templates whose failed load is caught: every other
\* failure rejects the build.
C17_UncaughtErrorsAreFatal ==
  /\ []((\/ SectionCompileFailed
          \/ IndexCompileFailed
          \/ RenderOrWriteFailed) => buildState = "rejected")
  /\ StaysRejected

\* The failures that do reject the build are all reached: a malformed inline
\* template, a template file that does not compile, a malformed index.twig,
\* a render that throws, a write that fails.
C17_ReachedInline ==
  \E i \in DOMAIN tmpl : tmpl[i].pc = "failed" /\ i \notin FileSections
C17_ReachedFile ==
  \E i \in FileSections : tmpl[i].pc = "failed"
C17_ReachedIndex == IndexCompileFailed
C17_ReachedRender ==
  \E p \in DOMAIN pages : \E k \in DOMAIN pages[p].sections :
    pages[p].sections[k].pc = "failed"
C17_ReachedWrite ==
  \E p \in DOMAIN pages :
    /\ pages[p].pc = "failed"
    /\ \A k \in DOMAIN pages[p].sections : pages[p].sections[k].pc # "failed"

\* The modifier_class a stored context holds, '' when it holds none.
ExistingClass(o) == IF heap[o].hasMc THEN heap[o].mc ELSE <<>>

SpaceSeparated(a, b) == IF a = <<>> THEN b ELSE a \o <<" ">> \o b

DistinctExample(section) == userTemplates[section.reference].exampleRef # <<>>

\* C18: each modifier's markup is the rendering of the example template
\* with the example context when the record has a distinct example, and of
\* the main template with the main context otherwise; its modifier_class is
\* the context's existing value and the modifier's class name, separated by
\* a space, without the placeholder; the stored context is not the object
\* rendered from.
C18_ModifierRendering ==
  \A pk \in Renderings :
    LET section == PageSectionAt(pk)
        rec == userTemplates[section.reference]
    IN section.pc = "done" =>
         \A m \in DOMAIN section.modifiers :
           LET out == section.modifiers[m].markup
               context == IF DistinctExample(section) THEN rec.exampleContext
                          ELSE rec.context
           IN /\ out.tpl = IF DistinctExample(section) THEN registry[rec.exampleRef]
                                                        ELSE registry[rec.ref]
              /\ out.data.mc = SpaceSeparated(ExistingClass(context),
                                              <<section.modifiers[m].className>>)
              /\ ~Contains(out.data.mc, placeholder[1])
              /\ out.data.safe
              /\ ~heap[context].safe

\* C18 witness: a modifier rendered from a distinct example whose context
\* (empty) differs from the main context (a sample object).
C18_Witness ==
  \E pk \in Renderings :
    LET section == PageSectionAt(pk)
        rec == userTemplates[section.reference]
    IN /\ section.pc = "done"
       /\ Len(section.modifiers) > 0
       /\ DistinctExample(section)
       /\ heap[rec.context] = SampleContext
       /\ heap[rec.exampleContext] = EmptyContext
       /\ section.modifiers[1].markup.tpl.id = rec.exampleRef
       /\ section.modifiers[1].markup.data.mc = <<section.modifiers[1].className>>

\* C18, no distinct example: the modifier is rendered from the main template
\* with the sample object's class and its own.
C18_WitnessMain ==
  \E pk \in Renderings :
    LET section == PageSectionAt(pk)
        rec == userTemplates[section.reference]
    IN /\ section.pc = "done"
       /\ Len(section.modifiers) > 0
       /\ ~DistinctExample(section)
       /\ heap[rec.context] = SampleContext
       /\ section.modifiers[1].markup.tpl.id = rec.ref
       /\ section.modifiers[1].markup.data.mc =
            SampleContext.mc \o <<" ", section.modifiers[1].className>>

\* The modifier_class of a canonical or example rendering of a section.
CanonicalClass(context, section) ==
  IF Len(section.modifiers) > 0
  THEN SpaceSeparated(ExistingClass(context), placeholder)
  ELSE ExistingClass(context)

\* C19: the markup rendering is given the main context's existing
\* modifier_class ('' when there is none), followed by the placeholder exactly
\* when the section has modifiers; the distinct example rendering the same
\* from the example context.
C19_PlaceholderRule ==
  \A pk \in Renderings :
    LET section == PageSectionAt(pk)
        rec == userTemplates[section.reference]
    IN /\ section.pc \in {"example", "done"} =>
            /\ section.markup.data.hasMc
            /\ section.markup.data.mc = CanonicalClass(rec.context, section)
            /\ Contains(section.markup.data.mc, placeholder[1])
                 = (Len(section.modifiers) > 0)
       /\ (section.pc = "done" /\ DistinctExample(section)) =>
            /\ section.example.tpl = registry[rec.exampleRef]
            /\ section.example.data.hasMc
            /\ section.example.data.mc = CanonicalClass(rec.exampleContext, section)

\* C19 witness: a section without modifiers rendered with the sample
\* object's class unchanged.
C19_Witness ==
  \E pk \in Renderings :
    LET section == PageSectionAt(pk)
    IN /\ section.pc = "done"
       /\ Len(section.modifiers) = 0
       /\ heap[userTemplates[section.reference].context] = SampleContext
       /\ section.markup.data.mc = SampleContext.mc

\* C19, with modifiers: the placeholder follows the sample object's class in
\* the markup, and stands alone in the example made from an empty context.
C19_WitnessModifiers ==
  \E pk \in Renderings :
    LET section == PageSectionAt(pk)
        rec == userTemplates[section.reference]
    IN /\ section.pc = "done"
       /\ Len(section.modifiers) > 0
       /\ DistinctExample(section)
       /\ heap[rec.context] = SampleContext
       /\ heap[rec.exampleContext] = EmptyContext
       /\ section.markup.data.mc = SampleContext.mc \o <<" ">> \o placeholder
       /\ section.example.data.mc = placeholder

\* The file sections of which only the example file is under some root.
OnlyExampleSections ==
  {i \in FileSections : /\ RootsWith(styleGuide[i].markup) = {}
                        /\ RootsWith(ExampleNameOf(i)) # {}}

\* C20: when only the example file is found, the main identity holds the
\* empty stand-in template and the example identity the compiled example
\* file; the markup keeps its text, without the marker; the saved record has
\* the example identity and an empty main context; the section's markup is
\* rendered from the stand-in and its example from the example file.
C20_OnlyExampleFound ==
  \A i \in OnlyExampleSections \cap LocatedSections :
    LET t == tmpl[i]
    IN /\ t.markup = styleGuide[i].markup
       /\ ~EndsWith(t.markup, NotFoundMarker)
       /\ t.pc # "failed" =>
            registry[t.name] = DataTemplate(t.name, EmptyTemplateData, buildNo)
       /\ (t.pc # "failed" /\ "example" \notin t.pending) =>
            registry[t.exampleName] =
              PathTemplate(ExampleNameOf(i), FirstByRank(ExampleNameOf(i)), buildNo)
       /\ t.pc = "saved" =>
            LET rec == userTemplates[t.reference]
            IN /\ rec.ref = Basename(styleGuide[i].markup)
               /\ rec.exampleRef = ExampleNameOf(i)
               /\ heap[rec.context] = EmptyContext
               /\ \A pk \in Renderings :
                    (PageSectionAt(pk).reference = t.reference
                       /\ PageSectionAt(pk).pc = "done") =>
                      /\ PageSectionAt(pk).markup.tpl.text = EmptyTemplateData
                      /\ PageSectionAt(pk).example.tpl.kind = "path"
                      /\ PageSectionAt(pk).example.tpl.file = FirstByRank(ExampleNameOf(i))

\* C20 witness: only the example was found, with a sample object; the record
\* is saved and the section rendered and written.
C20_Witness ==
  \E i \in OnlyExampleSections : \E pk \in Renderings :
    /\ tmpl[i].pc = "saved"
    /\ heap[userTemplates[tmpl[i].reference].exampleContext] = SampleContext
    /\ PageSectionAt(pk).reference = tmpl[i].reference
    /\ PageSectionAt(pk).pc = "done"
    /\ PageSectionAt(pk).markup.tpl.kind = "data"
    /\ pages[pk[1]].pc = "written"

\* The two readings of "a single line ending in the template extension": the
\* extension may be the whole line, or something must come before it.
SingleLine(markup) == \A k \in DOMAIN markup : markup[k] # "\n"
EndsInExtension(markup) == \E n \in 0..Len(markup) : markup = SubSeq(markup, 1, n) \o DotTwig
NameWithExtension(markup) ==
  \E n \in 1..Len(markup) : markup = SubSeq(markup, 1, n) \o DotTwig

SearchedFor(i) == \E g \in GlobIndexes : tmpl[i].globs[g].done
InlineSections(IsReference(_)) ==
  {i \in DOMAIN tmpl : styleGuide[i].markup # <<>> /\ ~IsReference(styleGuide[i].markup)}

\* How build() treats each section, given which markups count as file
\* references: a reference is searched for under its base name; inline text
\* is compiled under the section's reference, never searched for, and saved
\* without example linkage and with empty contexts; empty markup gets no
\* record and no compile.
TreatedAs(IsReference(_)) ==
  \A i \in DOMAIN tmpl :
    LET markup == styleGuide[i].markup
        t == tmpl[i]
    IN /\ markup = <<>> =>
            /\ t.pc = "none"
            /\ ~Has(userTemplates, t.reference)
            /\ ~Has(registered, t.reference)
       /\ (markup # <<>> /\ SingleLine(markup) /\ IsReference(markup)) =>
            /\ t.name = Basename(markup)
            /\ t.exampleName = KssExamplePrefix \o Basename(markup)
            /\ t.file # NoFile
            /\ t.pc # "glob" => \A g \in GlobIndexes : t.globs[g].done
       /\ (markup # <<>> /\ ~(SingleLine(markup) /\ IsReference(markup))) =>
            /\ t.name = t.reference
            /\ t.file = NoFile
            /\ ~SearchedFor(i)
            /\ t.pc \in {"inline", "saved", "failed"}
            /\ t.pc # "failed" =>
                 /\ registry[t.reference] = DataTemplate(t.reference, markup, buildNo)
                 /\ registered[t.reference] = 1
            /\ t.pc = "failed" => ~Has(registered, t.reference)
            /\ Has(userTemplates, t.reference) <=> t.pc = "saved"
            /\ t.pc = "saved" =>
                 LET rec == userTemplates[t.reference]
                 IN /\ rec.ref = t.reference
                    /\ rec.exampleRef = <<>>
                    /\ heap[rec.context] = EmptyContext
                    /\ heap[rec.exampleContext] = EmptyContext

\* C21 as stated: a markup is a file reference exactly when it is a single
\* line that ends in the template extension; every other non-empty markup is
\* inline, compiled under the section's reference with no file search, saved
\* with no example linkage and empty contexts; empty markup gets no record and
\* no compile.
C21_ExtensionMeansFile == TreatedAs(EndsInExtension)

\* C21, amended: a markup is a file reference exactly when it is a single
\* line of at least one character followed by the template extension; the
\* extension alone is inline text.  The rest is as stated.
C21_InlineOrFile == TreatedAs(NameWithExtension)

\* C21 witness: a two-line markup whose last line is the name of a file that
\* a source root holds was compiled inline and saved, and its pages written.
C21_Witness ==
  \E i \in DOMAIN tmpl :
    /\ EndsWith(styleGuide[i].markup, <<"\n">> \o BTwig)
    /\ \E r \in Roots : Glob(r, BTwig) # <<>>
    /\ tmpl[i].pc = "saved"
    /\ buildState = "resolved"

\* C21, the extension alone: compiled inline and saved, although a source
\* root holds a file of that name.
C21_WitnessBareExtension ==
  \E i \in DOMAIN tmpl :
    /\ styleGuide[i].markup = DotTwig
    /\ \E r \in Roots : Glob(r, DotTwig) # <<>>
    /\ tmpl[i].pc = "saved"
    /\ registry[tmpl[i].reference].text = DotTwig
    /\ buildState = "resolved"

\* C21, a file reference and a section without markup in one build.
C21_WitnessFile ==
  /\ \E i \in DOMAIN tmpl : tmpl[i].pc = "saved" /\ tmpl[i].file.root # 0
  /\ buildState = "resolved"
C21_WitnessEmpty ==
  /\ \E i \in DOMAIN tmpl : styleGuide[i].markup = <<>>
  /\ \E i \in DOMAIN tmpl : tmpl[i].pc = "saved"
  /\ buildState = "resolved"

BuildPending == buildState \in {"tasks", "pages"}
BuildSettled == buildState \in {"resolved", "rejected"}

\* C22: when every ready callback is eventually run, a build() that has been
\* called eventually resolves or rejects; and it is resolved only when every
\* page of the build has had its one write issued and that write has
\* succeeded.
C22_BuildSettles ==
  /\ BuildPending ~> BuildSettled
  /\ [](buildState = "resolved" =>
          \A p \in DOMAIN pages : pages[p].pc = "written" /\ pages[p].writes = 1)

\* C22 witness: a second build resolved, with the homepage, a section page and
\* an item page of a section with markup all written once.
C22_Witness ==
  /\ buildNo = 2
  /\ buildState = "resolved"
  /\ \A name \in {"index", "section", "item"} :
       \E p \in DOMAIN pages : pages[p].templateName = name
  /\ \E p \in DOMAIN pages : \E k \in DOMAIN pages[p].sections :
       pages[p].sections[k].pc = "done"
  /\ \A p \in DOMAIN pages : pages[p].pc = "written" /\ pages[p].writes = 1

\* C22, a build rejected by a failed write while another page was written.
C22_WitnessRejected ==
  /\ buildState = "rejected"
  /\ \E p \in DOMAIN pages : pages[p].pc = "failed" /\ pages[p].writes = 1
  /\ \E p \in DOMAIN pages : pages[p].pc = "written"

\* The renderings of sections that have markup, and the locator outcome of
\* the section a rendering is of.
MarkupRenderings == {pk \in Renderings : PageSectionAt(pk).pc # "skip"}
SectionOf(pk) ==
  CHOOSE i \in DOMAIN styleGuide : styleGuide[i].reference = PageSectionAt(pk).reference
MainFound(pk) == tmpl[SectionOf(pk)].file.root # 0
ExampleFound(pk) == tmpl[SectionOf(pk)].exampleFile.root # 0
IsInline(pk) == tmpl[SectionOf(pk)].file = NoFile

\* C23: for every section with markup on a page, userTemplates holds a record
\* under the section's reference, the registry holds the record's ref and,
\* when set, its exampleRef, the handles the page fetched are not null, and
\* no rendering has failed on a lookup (a rendering fails only when the
\* template itself throws).
C23_NoLookupMisses ==
  \A pk \in MarkupRenderings :
    LET section == PageSectionAt(pk)
    IN /\ Has(userTemplates, section.reference)
       /\ LET templateInfo == userTemplates[section.reference]
          IN /\ Has(registry, templateInfo.ref)
             /\ section.template = registry[templateInfo.ref]
             /\ section.template # NoTemplate
             /\ templateInfo.exampleRef # <<>> => Has(registry, templateInfo.exampleRef)
             /\ section.pc \in {"example", "done"} =>
                  /\ section.exampleTemplate # NoTemplate
                  /\ section.exampleTemplate =
                       IF templateInfo.exampleRef # <<>>
                       THEN registry[templateInfo.exampleRef]
                       ELSE section.template
             /\ section.pc = "failed" =>
                  RenderThrows(section.template) \/ RenderThrows(section.exampleTemplate)

\* C23 witness: only the example was found; the section was rendered from
\* the stand-in and from the example, and its page written.
C23_Witness ==
  \E pk \in MarkupRenderings :
    /\ ~MainFound(pk) /\ ExampleFound(pk)
    /\ PageSectionAt(pk).pc = "done"
    /\ PageSectionAt(pk).template.kind = "data"
    /\ PageSectionAt(pk).exampleTemplate.kind = "path"
    /\ pages[pk[1]].pc = "written"

\* C23, the other outcomes: inline, both found, only the main file, neither.
C23_WitnessInline ==
  \E pk \in MarkupRenderings :
    /\ IsInline(pk)
    /\ PageSectionAt(pk).pc = "done"
    /\ pages[pk[1]].pc = "written"
C23_WitnessBoth ==
  \E pk \in MarkupRenderings :
    /\ MainFound(pk) /\ ExampleFound(pk)
    /\ PageSectionAt(pk).pc = "done"
    /\ PageSectionAt(pk).template.kind = "path"
    /\ PageSectionAt(pk).exampleTemplate.kind = "path"
    /\ PageSectionAt(pk).exampleTemplate # PageSectionAt(pk).template
    /\ pages[pk[1]].pc = "written"
C23_WitnessOnlyMain ==
  \E pk \in MarkupRenderings :
    /\ MainFound(pk) /\ ~ExampleFound(pk)
    /\ PageSectionAt(pk).pc = "done"
    /\ PageSectionAt(pk).exampleTemplate = PageSectionAt(pk).template
    /\ pages[pk[1]].pc = "written"
C23_WitnessNeither ==
  \E pk \in MarkupRenderings :
    /\ ~IsInline(pk) /\ ~MainFound(pk) /\ ~ExampleFound(pk)
    /\ PageSectionAt(pk).pc = "done"
    /\ EndsWith(PageSectionAt(pk).template.text, NotFoundMarker)
    /\ pages[pk[1]].pc = "written"

\* The pages whose file name has been determined, and those whose write is
\* in progress.
NamedPages == {p \in DOMAIN pages : pages[p].fileName # <<>>}
WritingPages == {p \in DOMAIN pages : pages[p].pc = "writing"}
Last(s) == s[Len(s)]

C24_WitnessWritten ==
  /\ buildState = "resolved"
  /\ \E p \in NamedPages : pages[p].fileName = <<"index", ".html">>
  /\ \E p \in NamedPages : pages[p].fileName = <<"section", "-", "1", ".html">>
  /\ \E p \in NamedPages : pages[p].fileName = <<"item", "-", "1", ".", "1", ".html">>

====
